---- MODULE Spec2Model ----
(***************************************************************************)
(* A model of discrust_core: the Feature aggregator (feature.rs), the     *)
(* split search of a Node (node.rs) and the Discretizer's fit, predict_idx *)
(* and predict_woe (discretize.rs), with the setter of the public field    *)
(* mono that the Python class offers (src/lib.rs).                         *)
(*                                                                         *)
(* Numbers.  An f64 is an integer, with three reserved integers for NaN,   *)
(* +infinity and -infinity.  x values, weights and labels are small        *)
(* integers.  A weight of evidence ln(r) is kept in millionths             *)
(* (LnScale): woe = round(ln * 10^6), from a table of logarithms that is   *)
(* additive over products, so equal ratios have equal logarithms.  An      *)
(* information value (o/T1 - z/T0) * woe is kept as the integer            *)
(* (o*T0 - z*T1) * woe, i.e. in units of 1 / (LnScale * T1 * T0), where T1 *)
(* and T0 are the feature's total weighted ones and zeros: all information *)
(* values of one Feature share that unit, and the code only ever compares  *)
(* information values of one Feature.  min_iv is kept in thousandths.      *)
(* Option<T> is a sequence: <<>> for None, <<v>> for Some(v).              *)
(*                                                                         *)
(* State.  The fields of the Discretizer, the locals of fit while its      *)
(* loop runs (one action per pass of the loop; nothing else can act until  *)
(* fit has returned), and the arguments and the outcome of the last call.  *)
(*                                                                         *)
(* FitSpec is one fit of a new Discretizer over a wide set of inputs; Spec *)
(* is the life of a Discretizer, fitted again and again, asked for         *)
(* predictions and given another mono between the calls, over a few        *)
(* inputs; PairSpec is two fits of the same rows, the second on the same   *)
(* Discretizer, as it is or after the caller has set its mono, or on a new *)
(* one with other arguments, where `kept` holds the first fit's            *)
(* configuration and result for the comparison.  The information values   *)
(* of the model are exact, so the inputs are those where no two candidate  *)
(* splits of a range have the same information value (TieFree): on a tie   *)
(* the rounding of the f64 arithmetic decides which split the code takes.  *)
(***************************************************************************)
EXTENDS Integers, Sequences, FiniteSets, TLC

VARIABLES
    min_obs,      \* Discretizer.min_obs
    max_bins,     \* Discretizer.max_bins
    min_iv,       \* Discretizer.min_iv, in thousandths
    min_pos,      \* Discretizer.min_pos
    mono,         \* Discretizer.mono : Option<i8>
    root_node,    \* Discretizer.root_node : the tree as an arena of Nodes, <<>> for None
    splits_,      \* Discretizer.splits_
    feature,      \* Discretizer.feature : Option<Feature>
    pc,           \* "idle"; "loop" while fit's expansion loop runs; "break" after its break
    fit_feature,  \* fit's local `feature` while the loop runs
    que,          \* fit's local `que`: indices into root_node, front first
    n_bins,       \* fit's local `n_bins`
    args,         \* the arguments of the last call
    ret,          \* the outcome of the last call
    kept          \* what the caller kept of an earlier fit, <<>> for nothing

vars == <<min_obs, max_bins, min_iv, min_pos, mono, root_node, splits_, feature,
          pc, fit_feature, que, n_bins, args, ret, kept>>

-----------------------------------------------------------------------------
\* f64 values

NaN == -2100000000
INFINITY == 2000000000
NEG_INFINITY == -2000000000
LnScale == 1000000
MilliPerUnit == 1000

None == <<>>
Some(v) == <<v>>
is_none(o) == o = <<>>
unwrap(o) == o[1]
unwrap_or(o, d) == IF o = <<>> THEN d ELSE o[1]

is_nan(v) == v = NaN
IsInf(v) == v = INFINITY \/ v = NEG_INFINITY
IsFinite(v) == ~is_nan(v) /\ ~IsInf(v)

\* a < b, a > b, a == b of f64: false as soon as one side is NaN
FLt(a, b) == ~is_nan(a) /\ ~is_nan(b) /\ a < b
FGt(a, b) == ~is_nan(a) /\ ~is_nan(b) /\ a > b
FEq(a, b) == ~is_nan(a) /\ ~is_nan(b) /\ a = b
FGe(a, b) == ~is_nan(a) /\ ~is_nan(b) /\ a >= b

\* a + b of two information values (never of opposite infinities: an
\* information value is >= 0 or NaN)
FAdd(a, b) ==
    IF is_nan(a) \/ is_nan(b) THEN NaN
    ELSE IF a = INFINITY /\ b = NEG_INFINITY THEN NaN
    ELSE IF a = NEG_INFINITY /\ b = INFINITY THEN NaN
    ELSE IF IsInf(a) THEN a
    ELSE IF IsInf(b) THEN b
    ELSE a + b

\* ln(k) * LnScale for k in 1..64
LnTable ==
  << 0, 693147, 1098612, 1386294, 1609438, 1791759, 1945910, 2079441,
     2197224, 2302585, 2397895, 2484906, 2564949, 2639057, 2708050, 2772588,
     2833213, 2890371, 2944439, 2995732, 3044522, 3091042, 3135494, 3178053,
     3218876, 3258096, 3295836, 3332204, 3367296, 3401197, 3433987, 3465735,
     3496507, 3526360, 3555348, 3583518, 3610918, 3637586, 3663561, 3688879,
     3713572, 3737669, 3761200, 3784189, 3806662, 3828641, 3850148, 3871200,
     3891820, 3912023, 3931825, 3951243, 3970292, 3988983, 4007333, 4025351,
     4043051, 4060443, 4077537, 4094344, 4110874, 4127134, 4143134, 4158882 >>

ln(k) == LnTable[k]

\* (ones_dist / zero_dist).ln() for ones_dist = o / t1 and zero_dist = z / t0,
\* with weights >= 0.  x / 0 is NaN for x = 0 and +inf for x > 0; ln(0) is -inf.
Woe(o, t1, z, t0) ==
    IF t1 = 0 \/ t0 = 0 THEN NaN
    ELSE IF o = 0 /\ z = 0 THEN NaN
    ELSE IF o = 0 THEN NEG_INFINITY
    ELSE IF z = 0 THEN INFINITY
    ELSE ln(o) + ln(t0) - ln(z) - ln(t1)

\* (ones_dist - zero_dist) * woe, in units of 1 / (LnScale * t1 * t0)
IvOfWoe(o, t1, z, t0, woe) ==
    IF is_nan(woe) THEN NaN
    ELSE IF IsInf(woe) THEN INFINITY
    ELSE (o * t0 - z * t1) * woe

Iv(o, t1, z, t0) == IvOfWoe(o, t1, z, t0, Woe(o, t1, z, t0))

\* min_iv (thousandths) in the unit of the information values of a feature
\* with totals t1, t0
MinIvOf(miv, t1, t0) == miv * t1 * t0 * (LnScale \div MilliPerUnit)

-----------------------------------------------------------------------------
\* utils.rs

\* nan_safe_compare: "Less", "Equal" or "Greater"; NaN is below every number
nan_safe_compare(i, j) ==
    IF ~is_nan(i) /\ ~is_nan(j)
    THEN IF i < j THEN "Less" ELSE IF i > j THEN "Greater" ELSE "Equal"
    ELSE IF is_nan(i) /\ is_nan(j) THEN "Equal"
    ELSE IF is_nan(i) THEN "Less"
    ELSE "Greater"

\* slice.sort_by(|a, b| nan_safe_compare(key(a), key(b))) of a sequence of
\* <<key, payload>> pairs: stable, each element goes after the last element
\* that is not Greater than it.
RECURSIVE InsertSorted(_, _)
InsertSorted(s, v) ==
    IF s = <<>> THEN <<v>>
    ELSE IF nan_safe_compare(s[Len(s)][1], v[1]) # "Greater" THEN Append(s, v)
    ELSE Append(InsertSorted(SubSeq(s, 1, Len(s) - 1), v), s[Len(s)])

RECURSIVE SortByKey(_)
SortByKey(s) ==
    IF s = <<>> THEN <<>>
    ELSE InsertSorted(SortByKey(SubSeq(s, 1, Len(s) - 1)), s[Len(s)])

\* a sort_by that leaves the order as it is
sort_by_unsorted(s) == s

\* sort_by over plain f64 values
sort_by(s) ==
    [k \in 1..Len(s) |-> SortByKey([j \in 1..Len(s) |-> <<s[j], s[j]>>])[k][2]]

\* iter().position(pred): Option of the 0-based index of the first match
position(s, P(_)) ==
    IF \E k \in 1..Len(s) : P(s[k])
    THEN Some((CHOOSE k \in 1..Len(s) :
                  P(s[k]) /\ \A j \in 1..(k - 1) : ~P(s[j])) - 1)
    ELSE None

\* the sum of s[a..b] (1-based, inclusive)
RECURSIVE SumRange(_, _, _)
SumRange(s, a, b) == IF a > b THEN 0 ELSE s[a] + SumRange(s, a + 1, b)

-----------------------------------------------------------------------------
\* feature.rs: ExceptionValues

\* Vec::dedup: drops an element equal (==, so never a NaN) to the one kept before it
DedupPush(d, v) == IF FEq(d[Len(d)], v) THEN d ELSE Append(d, v)

RECURSIVE dedup(_)
dedup(s) ==
    IF Len(s) <= 1 THEN s
    ELSE DedupPush(dedup(SubSeq(s, 1, Len(s) - 1)), s[Len(s)])

ExceptionValuesOf(vals_) ==
    LET zeros == [k \in 1..Len(vals_) |-> 0]
    IN  [vals_ |-> vals_, ones_ct_ |-> zeros, zero_ct_ |-> zeros,
         totals_ct_ |-> zeros, iv_ |-> zeros, woe_ |-> zeros]

ExceptionValues_new(exception_values) ==
    ExceptionValuesOf(dedup(sort_by(exception_values)))

\* Option of the 0-based index of the first stored value nan-safe-equal to v
exception_idx(ev, v) ==
    LET IsEq(x) == nan_safe_compare(x, v) = "Equal"
    IN  position(ev.vals_, IsEq)

\* (y < 1.0) as i64 as f64
LtOne(y) == IF FLt(y, 1) THEN 1 ELSE 0

update_exception_values(ev, idx, w, y) ==
    [ev EXCEPT !.totals_ct_[idx + 1] = @ + w,
               !.ones_ct_[idx + 1] = @ + w * y,
               !.zero_ct_[idx + 1] = @ + w * LtOne(y)]

calculate_iv_woe(ev, total_ones, total_zero) ==
    [ev EXCEPT
       !.woe_ = [i \in 1..Len(ev.vals_) |->
                    Woe(ev.ones_ct_[i], total_ones, ev.zero_ct_[i], total_zero)],
       !.iv_ = [i \in 1..Len(ev.vals_) |->
                    Iv(ev.ones_ct_[i], total_ones, ev.zero_ct_[i], total_zero)]]

-----------------------------------------------------------------------------
\* feature.rs: Feature::new

\* the rows order[a..b] of the sorted index, all exception values, added to
\* their exception slots
RECURSIVE UpdateExceptions(_, _, _, _, _, _, _)
UpdateExceptions(ev, order, a, b, x, y, w) ==
    IF a > b THEN ev
    ELSE UpdateExceptions(
             update_exception_values(ev, unwrap(exception_idx(ev, x[order[a]])),
                                     w[order[a]], y[order[a]]),
             order, a + 1, b, x, y, w)

\* one pass of `for i in sort_index` over row i, with e = exception_idx(x[i]):
\* acc = [x_, vals_, totals_ct_, ones_ct_, zero_ct, ev]
AggregateRow(acc, e, xi, yi, wi) ==
    IF ~is_none(e)
    THEN [acc EXCEPT !.ev = update_exception_values(@, unwrap(e), wi, yi)]
    ELSE IF FLt(acc.x_, xi)
    THEN [acc EXCEPT !.x_ = xi,
                     !.totals_ct_ = Append(@, wi),
                     !.ones_ct_ = Append(@, wi * yi),
                     !.zero_ct = Append(@, wi * LtOne(yi)),
                     !.vals_ = Append(@, xi)]
    ELSE [acc EXCEPT !.totals_ct_[Len(acc.vals_)] = @ + wi,
                     !.ones_ct_[Len(acc.vals_)] = @ + wi * yi,
                     !.zero_ct[Len(acc.vals_)] = @ + wi * LtOne(yi)]

\* `for i in sort_index`: the rows order[k..] that follow the seed row
RECURSIVE Aggregate(_, _, _, _, _, _)
Aggregate(acc, order, k, x, y, w) ==
    IF k > Len(order) THEN acc
    ELSE Aggregate(AggregateRow(acc, exception_idx(acc.ev, x[order[k]]),
                                x[order[k]], y[order[k]], w[order[k]]),
                   order, k + 1, x, y, w)

Ok(v) == [kind |-> "Ok", err |-> "", val |-> v]
Err(e) == [kind |-> "Err", err |-> e, val |-> <<>>]
Panic == [kind |-> "Panic", err |-> "", val |-> <<>>]

\* the row indices 1..Len(x) sorted by x under nan_safe_compare
SortIndex(x) ==
    [k \in 1..Len(x) |-> SortByKey([j \in 1..Len(x) |-> <<x[j], j>>])[k][2]]

\* lines 135-149: Option of the 0-based index of the first row with a NaN y or w
FirstNaNRow(y, w) ==
    LET BadRow(k) == is_nan(y[k]) \/ is_nan(w[k])
    IN  position([k \in 1..Len(y) |-> k], BadRow)

\* lines 178-196: the position in sort_index of the first row after the
\* first one that is no exception value, Len + 1 when there is none
FirstNormal(ev, sort_index, x) ==
    LET IsNormal(k) == k >= 2 /\ is_none(exception_idx(ev, x[sort_index[k]]))
    IN  unwrap_or(position([k \in 1..Len(x) |-> k], IsNormal), Len(x)) + 1

\* lines 241-254: the Feature of the aggregates; ones_dist_[i] is the pair
\* <<ones_ct_[i], total_ones>> for ones_ct_[i] / total_ones, zero_dist_[i] likewise
FeatureOf(acc, total_ones, total_zero) ==
    [vals_ |-> acc.vals_,
     ones_ct_ |-> acc.ones_ct_,
     totals_ct_ |-> acc.totals_ct_,
     ones_dist_ |-> [i \in 1..Len(acc.vals_) |-> <<acc.ones_ct_[i], total_ones>>],
     zero_dist_ |-> [i \in 1..Len(acc.vals_) |-> <<acc.zero_ct[i], total_zero>>],
     exception_values |-> calculate_iv_woe(acc.ev, total_ones, total_zero)]

\* lines 202-206: the aggregates seeded with row init_idx
Seed(ev, init_idx, x, y, w) ==
    [x_ |-> x[init_idx],
     vals_ |-> <<x[init_idx]>>,
     totals_ct_ |-> <<w[init_idx]>>,
     ones_ct_ |-> <<w[init_idx] * y[init_idx]>>,
     zero_ct |-> <<w[init_idx] * LtOne(y[init_idx])>>,
     ev |-> ev]

\* lines 169-240 when the first sorted row is an exception value: the rows
\* sort_index[1..q-1] go to the exception slots, row sort_index[q] seeds the
\* aggregates; when all rows are exception values (q = Len + 1) the first
\* row seeds them
AggregateSkipping(ev0, sort_index, q, x, y, w) ==
    Aggregate(Seed(UpdateExceptions(ev0, sort_index, 1, q - 1, x, y, w),
                   IF q <= Len(x) THEN sort_index[q] ELSE sort_index[1], x, y, w),
              sort_index, q + 1, x, y, w)

\* lines 151-254, for a non-empty input without NaN in y and w
FeatureSorted(ev0, sort_index, x, y, w, total_ones, total_zero) ==
    IF is_nan(x[sort_index[1]]) /\ is_none(exception_idx(ev0, x[sort_index[1]]))
    THEN Err("ContainsNaN(x column, but NaN is not an exception value)")
    ELSE IF ~is_none(exception_idx(ev0, x[sort_index[1]]))
    THEN Ok(FeatureOf(AggregateSkipping(ev0, sort_index,
                                        FirstNormal(ev0, sort_index, x), x, y, w),
                      total_ones, total_zero))
    ELSE Ok(FeatureOf(Aggregate(Seed(ev0, sort_index[1], x, y, w),
                                sort_index, 2, x, y, w),
                      total_ones, total_zero))

\* a NaNError that names the y column whatever the row holds
NaNError_y(y, bad) == Err("ContainsNaN(y column)")

\* lines 135-149: the error of the first row with a NaN y or w
NaNError(y, bad) ==
    IF is_nan(y[unwrap(bad) + 1])
    THEN Err("ContainsNaN(y column)")
    ELSE Err("ContainsNaN(weight column)")

FeatureChecked(x, y, w, exception_values, bad) ==
    IF ~is_none(bad) THEN NaNError(y, bad)
    ELSE IF Len(x) = 0 THEN Panic   \* x[init_idx], init_idx = unwrap_or(0) of no row
    ELSE FeatureSorted(ExceptionValues_new(exception_values), SortIndex(x), x, y, w,
                       SumRange([k \in 1..Len(x) |-> w[k] * y[k]], 1, Len(x)),
                       SumRange([k \in 1..Len(x) |-> w[k] * LtOne(y[k])], 1, Len(x)))

\* Result<Feature, DiscrustError>, or Panic where the code indexes out of
\* range.  x, y, w have one length.
Feature_new(x, y, w, exception_values) ==
    FeatureChecked(x, y, w, exception_values, FirstNaNRow(y, w))

\* the denominators of the distributions: the feature's total_ones, total_zero
TotalOnes(f) == f.ones_dist_[1][2]
TotalZero(f) == f.zero_dist_[1][2]

\* the offset in vals_[start..stop] of the first value > split_value,
\* stop - start when there is none
SplitIdx(f, split_value, start, stop) ==
    LET Above(v) == FGt(v, split_value)
    IN  unwrap_or(position(SubSeq(f.vals_, start + 1, stop), Above), stop - start)

\* the sum of the numerators of the distributions d[a..b] (1-based, inclusive)
RECURSIVE SumDist(_, _, _)
SumDist(d, a, b) == IF a > b THEN 0 ELSE d[a][1] + SumDist(d, a + 1, b)

\* <<iv, woe>> of a side with ones_dist = o / t1 and zero_dist = z / t0
SideIvWoe(o, t1, z, t0) == <<Iv(o, t1, z, t0), Woe(o, t1, z, t0)>>

SplitIvWoeAt(f, split_idx, start, stop) ==
    << SideIvWoe(SumDist(f.ones_dist_, start + 1, start + split_idx), TotalOnes(f),
                 SumDist(f.zero_dist_, start + 1, start + split_idx), TotalZero(f)),
       SideIvWoe(SumDist(f.ones_dist_, start + split_idx + 1, stop), TotalOnes(f),
                 SumDist(f.zero_dist_, start + split_idx + 1, stop), TotalZero(f)) >>

\* <<<<lhs_iv, lhs_woe>>, <<rhs_iv, rhs_woe>>>>
split_iv_woe(f, split_value, start, stop) ==
    SplitIvWoeAt(f, SplitIdx(f, split_value, start, stop), start, stop)

SplitTotalsAt(f, split_idx, start, stop) ==
    << <<SumRange(f.totals_ct_, start + 1, start + split_idx),
         SumRange(f.ones_ct_, start + 1, start + split_idx)>>,
       <<SumRange(f.totals_ct_, start + split_idx + 1, stop),
         SumRange(f.ones_ct_, start + split_idx + 1, stop)>> >>

\* <<<<lhs_ct, lhs_ones>>, <<rhs_ct, rhs_ones>>>>
split_totals_ct_ones_ct(f, split_value, start, stop) ==
    SplitTotalsAt(f, SplitIdx(f, split_value, start, stop), start, stop)

-----------------------------------------------------------------------------
\* node.rs

SplitInfo_new(split, lhs_iv, lhs_woe, rhs_iv, rhs_woe) ==
    [split |-> Some(split), lhs_iv |-> Some(lhs_iv), lhs_woe |-> Some(lhs_woe),
     rhs_iv |-> Some(rhs_iv), rhs_woe |-> Some(rhs_woe)]

SplitInfo_new_empty ==
    [split |-> None, lhs_iv |-> None, lhs_woe |-> None,
     rhs_iv |-> None, rhs_woe |-> None]

DefaultMinObs == 5
DefaultMinIv == 1
DefaultMinPos == 5
DefaultMaxBins == 10

\* left_node, right_node: Option of the child's index in the arena.
\* start, stop: the 0-based half-open range [start, stop) of feature.vals_.
Node_new(f, minobs, miniv, minpos, mon, woe, iv, start, stop) ==
    [min_obs |-> unwrap_or(minobs, DefaultMinObs),
     min_iv |-> unwrap_or(miniv, DefaultMinIv),
     min_pos |-> unwrap_or(minpos, DefaultMinPos),
     mono |-> mon,
     woe |-> unwrap_or(woe, 0),
     iv |-> unwrap_or(iv, 0),
     start |-> unwrap_or(start, 0),
     stop |-> unwrap_or(stop, Len(f.vals_)),
     left_node |-> None,
     right_node |-> None,
     split_info |-> SplitInfo_new_empty]

is_terminal(node) == is_none(node.left_node) /\ is_none(node.right_node)

\* feature.vals_[start..(stop - 1)]
eval_values(node, f) == SubSeq(f.vals_, node.start + 1, node.stop - 1)

\* a min_pos gate that passes the sides with at most min_pos weighted positives
MinPosGate_atmost(node, cts) == cts[1][2] <= node.min_pos /\ cts[2][2] <= node.min_pos

\* lines 111-113: both sides hold at least min_pos weighted positives
MinPosGate(node, cts) == cts[1][2] >= node.min_pos /\ cts[2][2] >= node.min_pos

\* a min_obs gate that lets every split pass
MinObsGate_open(node, cts) == TRUE

\* lines 116-118: both sides hold at least min_obs weighted observations
MinObsGate(node, cts) == cts[1][1] >= node.min_obs /\ cts[2][1] >= node.min_obs

\* lines 124-127: the information value of the split is not below min_iv
MinIvGate(node, f, total_iv) ==
    ~FLt(total_iv, MinIvOf(node.min_iv, TotalOnes(f), TotalZero(f)))

\* a monotonicity gate that takes only split_sign 1 whatever mono is
MonoGate_up(node, ivs) == FLt(ivs[1][2], ivs[2][2])

\* lines 135-150: split_sign is 1 when lhs_woe < rhs_woe and -1 otherwise; a
\* node with mono = -1 takes only split_sign -1, a node with another mono
\* that is set and not 0 only split_sign 1
MonoGate(node, ivs) ==
    IF unwrap_or(node.mono, 0) = 0 THEN TRUE
    ELSE IF unwrap_or(node.mono, 0) = -1 THEN ~FLt(ivs[1][2], ivs[2][2])
    ELSE FLt(ivs[1][2], ivs[2][2])

\* a search that takes a candidate whose information value equals the best
\* so far: the latest of equal candidates wins
Consider_latest(node, f, best, v, cts, ivs, total_iv) ==
    IF ~MinPosGate(node, cts) THEN best
    ELSE IF ~MinObsGate(node, cts) THEN best
    ELSE IF ~MinIvGate(node, f, total_iv) THEN best
    ELSE IF ~MonoGate(node, ivs) THEN best
    ELSE IF FGe(total_iv, best.iv)
    THEN [iv |-> total_iv, split |-> v, lhs_iv |-> ivs[1][1], lhs_woe |-> ivs[1][2],
          rhs_iv |-> ivs[2][1], rhs_woe |-> ivs[2][2]]
    ELSE best

\* lines 108-160: the gates on a candidate v with counts cts and <<iv, woe>>
\* pairs ivs, and the update of the best split so far
Consider(node, f, best, v, cts, ivs, total_iv) ==
    IF ~MinPosGate(node, cts) THEN best
    ELSE IF ~MinObsGate(node, cts) THEN best
    ELSE IF ~MinIvGate(node, f, total_iv) THEN best
    ELSE IF ~MonoGate(node, ivs) THEN best
    ELSE IF FGt(total_iv, best.iv)
    THEN [iv |-> total_iv, split |-> v, lhs_iv |-> ivs[1][1], lhs_woe |-> ivs[1][2],
          rhs_iv |-> ivs[2][1], rhs_woe |-> ivs[2][2]]
    ELSE best

ConsiderSplit(node, f, best, v, cts, ivs) ==
    Consider(node, f, best, v, cts, ivs, FAdd(ivs[1][1], ivs[2][1]))

\* one pass of the loop of find_best_split over the candidate v
BestAfter(node, f, best, v) ==
    ConsiderSplit(node, f, best, v,
                  split_totals_ct_ones_ct(f, v, node.start, node.stop),
                  split_iv_woe(f, v, node.start, node.stop))

RECURSIVE BestOver(_, _, _, _, _)
BestOver(node, f, best, vs, k) ==
    IF k > Len(vs) THEN best
    ELSE BestOver(node, f, BestAfter(node, f, best, vs[k]), vs, k + 1)

\* lines 161-172
SplitInfoOf(best) ==
    IF FEq(best.iv, 0) THEN SplitInfo_new_empty
    ELSE SplitInfo_new(best.split, best.lhs_iv, best.lhs_woe,
                       best.rhs_iv, best.rhs_woe)

find_best_split(node, f) ==
    SplitInfoOf(BestOver(node, f,
                         [iv |-> 0, split |-> NEG_INFINITY, lhs_iv |-> 0,
                          lhs_woe |-> 0, rhs_iv |-> 0, rhs_woe |-> 0],
                         eval_values(node, f), 1))

-----------------------------------------------------------------------------
\* discretize.rs: fit

\* the tree after `node.split_info = info` and the two children are attached
\* to the node at index n of the arena; the children get the next two indices
AttachChildren(tree, n, info, lhs_node, rhs_node) ==
    LET l == Len(tree) + 1
        r == Len(tree) + 2
        parent == [tree[n] EXCEPT !.split_info = info,
                                  !.left_node = Some(l),
                                  !.right_node = Some(r)]
    IN  [tree EXCEPT ![n] = parent] \o <<lhs_node, rhs_node>>

\* a push to the back of the queue, where pop_back takes from
push_front_back(q, v) == Append(q, v)

push_front(q, v) == <<v>> \o q
back(q) == q[Len(q)]
pop_back(q) == SubSeq(q, 1, Len(q) - 1)

FitResult(kind, err, val) == [op |-> "fit", kind |-> kind, err |-> err, val |-> val]

\* lines 56-72 for the result r of Feature::new
BeginWith(r) ==
    IF r.kind = "Ok"
    THEN /\ root_node' = <<Node_new(r.val, Some(min_obs), Some(min_iv),
                                    Some(min_pos), mono, None, None, None, None)>>
         /\ que' = <<1>>
         /\ n_bins' = 1
         /\ fit_feature' = Some(r.val)
         /\ pc' = "loop"
         /\ ret' = FitResult("Running", "", <<>>)
    ELSE /\ ret' = FitResult(r.kind, r.err, <<>>)
         /\ UNCHANGED <<root_node, que, n_bins, fit_feature, pc>>

\* a fit that forgets the direction of the fits before it
FitBegin_fresh(x, y, w, exception_values) ==
    /\ pc = "idle"
    /\ splits_' = <<>>
    /\ mono' = None
    /\ args' = [x |-> x, y |-> y, w |-> w, exception_values |-> exception_values]
    /\ BeginWith(Feature_new(x, y, w, unwrap_or(exception_values, <<>>)))
    /\ UNCHANGED <<min_obs, max_bins, min_iv, min_pos, feature, kept>>

\* lines 50-72: the reset of splits_, Feature::new, the root node and the queue
FitBegin(x, y, w, exception_values) ==
    /\ pc = "idle"
    /\ splits_' = <<>>
    /\ args' = [x |-> x, y |-> y, w |-> w, exception_values |-> exception_values]
    /\ BeginWith(Feature_new(x, y, w, unwrap_or(exception_values, <<>>)))
    /\ UNCHANGED <<min_obs, max_bins, min_iv, min_pos, mono, feature, kept>>

\* an election that always takes the direction +1
Elect_up(mon, info) == IF is_none(mon) THEN Some(1) ELSE mon

\* no election: the children are built with the mono the fit began with
Elect_never(mon, info) == mon

\* lines 92-95: the direction the children are built with
Elect(mon, info) ==
    IF is_none(mon)
    THEN Some(IF FLt(unwrap(info.lhs_woe), unwrap(info.rhs_woe)) THEN 1 ELSE -1)
    ELSE mon

\* the index of the split value itself in place of the first value above it
FirstAbove_same(f, split) ==
    LET AtOrAbove(v) == FGe(v, split)
    IN  position(f.vals_, AtOrAbove)

\* line 97: Option of the 0-based index of the first value of vals_ above split
FirstAbove(f, split) ==
    LET Above(v) == FGt(v, split)
    IN  position(f.vals_, Above)

\* lines 99-129: the children of the node at index n, split by info at split_idx
Grow(f, n, info, elected, split_idx) ==
    /\ n_bins' = n_bins + 1
    /\ mono' = elected
    /\ root_node' = AttachChildren(root_node, n, info,
                        Node_new(f, Some(min_obs), Some(min_iv), Some(min_pos),
                                 elected, info.lhs_woe, info.lhs_iv,
                                 Some(root_node[n].start), split_idx),
                        Node_new(f, Some(min_obs), Some(min_iv), Some(min_pos),
                                 elected, info.rhs_woe, info.rhs_iv,
                                 split_idx, Some(root_node[n].stop)))
    /\ que' = push_front(push_front(pop_back(que), Len(root_node) + 1),
                         Len(root_node) + 2)
    /\ splits_' = Append(splits_, unwrap(info.split))
    /\ pc' = "loop"

\* a cap that is never reached
CapReached_never(n) == FALSE

\* a cap that is reached one bin too late
CapReached_late(n) == n > max_bins + 1

\* lines 85-87: the bin count n has passed max_bins
CapReached(n) == n > max_bins

\* lines 75-129 for the node at index n and its best split info
ExpandWith(f, n, info) ==
    IF is_none(info.split)
    THEN \* continue
         /\ que' = pop_back(que)
         /\ UNCHANGED <<mono, root_node, splits_, n_bins, pc>>
    ELSE IF CapReached(n_bins + 1)
    THEN \* break
         /\ que' = pop_back(que)
         /\ n_bins' = n_bins + 1
         /\ pc' = "break"
         /\ UNCHANGED <<mono, root_node, splits_>>
    ELSE Grow(f, n, info, Elect(mono, info), FirstAbove(f, unwrap(info.split)))

\* lines 73-130: one pass of `while que.len() > 0`
FitExpand ==
    /\ pc = "loop"
    /\ Len(que) > 0
    /\ ExpandWith(unwrap(fit_feature), back(que),
                  find_best_split(root_node[back(que)], unwrap(fit_feature)))
    /\ UNCHANGED <<min_obs, max_bins, min_iv, min_pos, feature, fit_feature, args,
                   ret, kept>>

\* lines 131-136: after the loop
FitReturn ==
    /\ \/ pc = "loop" /\ Len(que) = 0
       \/ pc = "break"
    /\ feature' = fit_feature
    /\ splits_' = sort_by(Append(Append(splits_, NEG_INFINITY), INFINITY))
    /\ ret' = FitResult("Ok", "", splits_')
    /\ pc' = "idle"
    /\ que' = <<>>
    /\ n_bins' = 0
    /\ fit_feature' = None
    /\ UNCHANGED <<min_obs, max_bins, min_iv, min_pos, mono, root_node, args, kept>>

-----------------------------------------------------------------------------
\* discretize.rs: predict

\* Result<i64, DiscrustError>
RecordIdx(e, idx) ==
    IF ~is_none(e) THEN Ok((unwrap(e) + 1) * (-1))
    ELSE IF is_none(idx) THEN Err("Prediction")
    ELSE Ok(unwrap(idx))

\* the first split strictly above v
FirstAtOrAbove_strict(all_splits, v) ==
    LET Above(s) == nan_safe_compare(s, v) = "Greater"
    IN  position(all_splits, Above)

\* Option of the 0-based index of the first split at or above v
FirstAtOrAbove(all_splits, v) ==
    LET AtOrAbove(s) == nan_safe_compare(s, v) \in {"Greater", "Equal"}
    IN  position(all_splits, AtOrAbove)

predict_record_idx(v, all_splits, f) ==
    RecordIdx(exception_idx(f.exception_values, v), FirstAtOrAbove(all_splits, v))

\* a walk that goes right already at v = split
RECURSIVE WalkWoe_edge_right(_, _, _)
WalkWoe_edge_right(tree, n, v) ==
    IF is_terminal(tree[n]) THEN tree[n].woe
    ELSE IF FGe(v, unwrap(tree[n].split_info.split))
    THEN WalkWoe_edge_right(tree, unwrap(tree[n].right_node), v)
    ELSE WalkWoe_edge_right(tree, unwrap(tree[n].left_node), v)

\* the walk from the node at index n down to a terminal node: its woe
RECURSIVE WalkWoe(_, _, _)
WalkWoe(tree, n, v) ==
    IF is_terminal(tree[n]) THEN tree[n].woe
    ELSE IF FGt(v, unwrap(tree[n].split_info.split))
    THEN WalkWoe(tree, unwrap(tree[n].right_node), v)
    ELSE WalkWoe(tree, unwrap(tree[n].left_node), v)

\* Result<f64, DiscrustError>
RecordWoe(v, f, tree, excp_idx) ==
    IF ~is_none(excp_idx)
    THEN IF FEq(f.exception_values.totals_ct_[unwrap(excp_idx) + 1], 0)
         THEN Ok(0)
         ELSE Ok(f.exception_values.woe_[unwrap(excp_idx) + 1])
    ELSE IF tree = <<>> THEN Err("NotFitted")
    ELSE Ok(WalkWoe(tree, 1, v))

predict_record_woe(v, f, tree) ==
    RecordWoe(v, f, tree, exception_idx(f.exception_values, v))

\* collect::<Result<Vec<_>, _>>(): the first Err, or all the values
FirstErr(rs) ==
    LET IsErr(r) == r.kind # "Ok"
    IN  position(rs, IsErr)

CollectFrom(rs, bad) ==
    IF ~is_none(bad) THEN rs[unwrap(bad) + 1]
    ELSE Ok([k \in 1..Len(rs) |-> rs[k].val])

Collect(rs) == CollectFrom(rs, FirstErr(rs))

predict_woe(x) ==
    IF is_none(feature) THEN Err("NotFitted")
    ELSE Collect([k \in 1..Len(x) |->
                     predict_record_woe(x[k], unwrap(feature), root_node)])

\* &self.splits_.as_slice()[1..] panics on an empty splits_
predict_idx(x) ==
    IF Len(splits_) < 1 THEN Panic
    ELSE IF is_none(feature) THEN Err("NotFitted")
    ELSE Collect([k \in 1..Len(x) |->
                     predict_record_idx(x[k], SubSeq(splits_, 2, Len(splits_)),
                                        unwrap(feature))])

Returned(op, r) == [op |-> op, kind |-> r.kind, err |-> r.err, val |-> r.val]

PredictWoe(x) ==
    /\ pc = "idle"
    /\ args' = [x |-> x]
    /\ ret' = Returned("predict_woe", predict_woe(x))
    /\ UNCHANGED <<min_obs, max_bins, min_iv, min_pos, mono, root_node, splits_,
                   feature, pc, fit_feature, que, n_bins, kept>>

PredictIdx(x) ==
    /\ pc = "idle"
    /\ args' = [x |-> x]
    /\ ret' = Returned("predict_idx", predict_idx(x))
    /\ UNCHANGED <<min_obs, max_bins, min_iv, min_pos, mono, root_node, splits_,
                   feature, pc, fit_feature, que, n_bins, kept>>

\* the setter of mono: self.disc.mono = value.  It touches neither the tree
\* nor splits_ nor the Feature of the last fit.
set_mono(value) ==
    /\ pc = "idle"
    /\ mono' = value
    /\ args' = [value |-> value]
    /\ ret' = [op |-> "set_mono", kind |-> "Ok", err |-> "", val |-> <<>>]
    /\ UNCHANGED <<min_obs, max_bins, min_iv, min_pos, root_node, splits_,
                   feature, pc, fit_feature, que, n_bins, kept>>

-----------------------------------------------------------------------------
\* The callers' inputs

MaxX == 3        \* x values are 1..MaxX
MaxW == 2        \* the weights of the enumerated tables are in 0..MaxW
MaxExc == 3      \* the length of an exception list
MaxPredict == 1  \* the length of a slice given to predict_*

Row(xv, yv, wv) == [x |-> xv, y |-> yv, w |-> wv]

\* the column c of the rows d
Col(d, c) == [k \in 1..Len(d) |-> IF c = "x" THEN d[k].x
                                  ELSE IF c = "y" THEN d[k].y ELSE d[k].w]

\* The rows of a table that gives, for each x value v, the weight c[v][1] of its
\* row with y = 1 and the weight c[v][2] of its row with y = 0 (no row for a
\* weight of 0); the largest x comes first, so the input is not sorted.
RECURSIVE RowsOf(_, _)
RowsOf(c, v) ==
    IF v = 0 THEN <<>>
    ELSE (IF c[v][1] > 0 THEN <<Row(v, 1, c[v][1])>> ELSE <<>>)
         \o (IF c[v][2] > 0 THEN <<Row(v, 0, c[v][2])>> ELSE <<>>)
         \o RowsOf(c, v - 1)

\* every table over 1..MaxX with weights up to MaxW (the empty input included)
Tables == [1..MaxX -> (0..MaxW) \X (0..MaxW)]
CleanData == {RowsOf(c, MaxX) : c \in Tables}

\* the table with ones : zeros = 1 : 3 at the least x value, 2 : 1 at the
\* largest, 1 : 1 between them: its weight of evidence grows with x
GradedData ==
    RowsOf([v \in 1..MaxX |-> IF v = 1 THEN <<1, 3>>
                              ELSE IF v = MaxX THEN <<2, 1>> ELSE <<1, 1>>], MaxX)

\* the table whose rows are all labelled 0 but for the largest x value
StepData == RowsOf([v \in 1..MaxX |-> IF v = MaxX THEN <<1, 0>> ELSE <<0, 1>>], MaxX)

\* a table of four x values whose weight of evidence grows with x: with
\* max_bins = 4 the root and both of its children are split
DeepData == RowsOf(<< <<1, 3>>, <<1, 2>>, <<2, 1>>, <<4, 1>> >>, 4)

\* GradedData with the labels exchanged: its weight of evidence falls with x
FallingData == [k \in 1..Len(GradedData) |-> [GradedData[k] EXCEPT !.y = 1 - @]]

\* GradedData with -infinity for its least and +infinity for its largest x value
UnboundedData ==
    [k \in 1..Len(GradedData) |->
        [GradedData[k] EXCEPT !.x = IF @ = 1 THEN NEG_INFINITY
                                    ELSE IF @ = MaxX THEN INFINITY ELSE @]]

\* d with the field col of row k replaced by NaN
Spoil(d, k, col) ==
    IF k > Len(d) THEN d
    ELSE [d EXCEPT ![k] = IF col = "x" THEN [@ EXCEPT !.x = NaN]
                          ELSE IF col = "y" THEN [@ EXCEPT !.y = NaN]
                          ELSE IF col = "w" THEN [@ EXCEPT !.w = NaN]
                          ELSE @]

Columns == {"x", "y", "w", "none"}

\* GradedData with a NaN in one column of its first row, of its last row, or
\* of both
SpoiledData == {Spoil(Spoil(GradedData, 1, c1), Len(GradedData), c2) :
                   c1 \in Columns, c2 \in Columns}

ExcDomain == {NaN, 1}
SeqsUpTo(S, n) == UNION {[1..k -> S] : k \in 0..n}
ExceptionLists == {Some(e) : e \in SeqsUpTo(ExcDomain, MaxExc)}

Input(d, e) == [d |-> d, e |-> e]

\* the information value of the split of vals_[start..stop] at v
TotalIv(f, v, start, stop) ==
    FAdd(split_iv_woe(f, v, start, stop)[1][1], split_iv_woe(f, v, start, stop)[2][1])

\* No two candidate splits of a range of f.vals_ have the same finite, positive
\* information value.  The information values of the model are exact, those
\* of the code are rounded: where two of them are equal, the rounding decides
\* which split the code takes for the best.
TieFreeFeature(f) ==
    \A start \in 0..Len(f.vals_), stop \in 0..Len(f.vals_) :
        \A i \in (start + 1)..(stop - 1), j \in (start + 1)..(stop - 1) :
            /\ i < j
            /\ IsFinite(TotalIv(f, f.vals_[i], start, stop))
            /\ TotalIv(f, f.vals_[i], start, stop) > 0
            => TotalIv(f, f.vals_[i], start, stop) # TotalIv(f, f.vals_[j], start, stop)

TieFreeResult(r) == r.kind = "Ok" => TieFreeFeature(r.val)

TieFree(in) ==
    TieFreeResult(Feature_new(Col(in.d, "x"), Col(in.d, "y"), Col(in.d, "w"),
                              unwrap_or(in.e, <<>>)))

\* the tables whose rows all have the least x value, and those with a NaN for
\* the x of their first row: with the exception list <<1, NaN>> every row of
\* them is an exception value
LeastOnlyData ==
    {RowsOf([v \in 1..MaxX |-> IF v = 1 THEN c ELSE <<0, 0>>], MaxX) :
        c \in ((0..MaxW) \X (0..MaxW)) \ {<<0, 0>>}}
ExceptionOnlyData == LeastOnlyData \cup {Spoil(d, 1, "x") : d \in LeastOnlyData}

\* what fit is called with on a new Discretizer
FitInputs ==
    {in \in {Input(d, None) : d \in CleanData}
            \cup {Input(UnboundedData, None), Input(DeepData, None)}
            \cup {Input(d, e) : d \in {GradedData, StepData, Spoil(GradedData, 2, "x")},
                                e \in ExceptionLists}
            \cup {Input(d, e) : d \in SpoiledData,
                                e \in {None, Some(<<1>>), Some(<<NaN>>), Some(<<1, NaN>>)}}
            \cup {Input(d, e) : d \in ExceptionOnlyData,
                                e \in {Some(<<1>>), Some(<<1, NaN>>)}} :
        TieFree(in)}

\* what fit is called with on a Discretizer that is then used and fitted again
RefitInputs ==
    {in \in {Input(<<>>, None),
             Input(GradedData, None),
             Input(StepData, None),
             Input(FallingData, None),
             Input(Spoil(GradedData, 2, "x"), Some(<<NaN>>)),
             Input(Spoil(GradedData, 2, "x"), Some(<<NaN, 1, NaN>>)),
             Input(GradedData, Some(<<1, NaN, 1>>)),
             Input(Spoil(GradedData, 1, "y"), None)} :
        TieFree(in)}

\* the tables with at most one row labelled 1, of weight 1, for each x value
PairData == {RowsOf(c, MaxX) : c \in [1..MaxX -> (0..1) \X (0..MaxW)]}

\* what the first fit of a pair is called with
PairInputs ==
    {in \in {Input(d, None) : d \in PairData \cup {GradedData, StepData}}
            \cup {Input(GradedData, Some(<<1>>)),
                  Input(Spoil(GradedData, 2, "x"), Some(<<NaN>>))} :
        TieFree(in)}

PredictDomain == {NaN, NEG_INFINITY, INFINITY} \cup (0..(MaxX + 1))
PredictSlices == SeqsUpTo(PredictDomain, MaxPredict)

MinObsArgs == {Some(1), Some(2)}
MinPosArgs == {Some(0), Some(1)}
MinIvArgs == {None}
MaxBinsArgs == {Some(0), Some(1), Some(2), Some(3), Some(4)}
MonoArgs == {None, Some(1), Some(-1)}

-----------------------------------------------------------------------------
\* The state machine

\* Discretizer::new
Init ==
    /\ min_obs \in {unwrap_or(a, DefaultMinObs) : a \in MinObsArgs}
    /\ max_bins \in {unwrap_or(a, DefaultMaxBins) : a \in MaxBinsArgs}
    /\ min_iv \in {unwrap_or(a, DefaultMinIv) : a \in MinIvArgs}
    /\ min_pos \in {unwrap_or(a, DefaultMinPos) : a \in MinPosArgs}
    /\ mono \in MonoArgs
    /\ root_node = None
    /\ splits_ = <<>>
    /\ feature = None
    /\ pc = "idle"
    /\ fit_feature = None
    /\ que = <<>>
    /\ n_bins = 0
    /\ args = <<>>
    /\ ret = [op |-> "new", kind |-> "Ok", err |-> "", val |-> <<>>]
    /\ kept = <<>>

\* fit on a new Discretizer
Fit == \E in \in FitInputs :
           /\ is_none(feature) /\ args = <<>>
           /\ FitBegin(Col(in.d, "x"), Col(in.d, "y"), Col(in.d, "w"), in.e)

\* fit on a Discretizer, new or used
Refit == \E in \in RefitInputs :
           FitBegin(Col(in.d, "x"), Col(in.d, "y"), Col(in.d, "w"), in.e)

Predict == \E x \in PredictSlices : PredictIdx(x) \/ PredictWoe(x)

\* the caller sets mono between two calls
SetMono == \E value \in MonoArgs : set_mono(value)

\* Discretizer::new: the fields of a new Discretizer
Discretizer_new(a_min_obs, a_max_bins, a_min_iv, a_min_pos, a_mono) ==
    /\ min_obs' = unwrap_or(a_min_obs, DefaultMinObs)
    /\ max_bins' = unwrap_or(a_max_bins, DefaultMaxBins)
    /\ min_iv' = unwrap_or(a_min_iv, DefaultMinIv)
    /\ min_pos' = unwrap_or(a_min_pos, DefaultMinPos)
    /\ mono' = a_mono
    /\ root_node' = None
    /\ splits_' = <<>>
    /\ feature' = None

\* What the caller keeps of a fit that has returned: the configuration it ran
\* with (mono0 is the mono it began with, which the root node holds), its
\* arguments, and the Discretizer's public and private state after it.
Kept ==
    [min_obs |-> min_obs, max_bins |-> max_bins, min_iv |-> min_iv,
     min_pos |-> min_pos, mono0 |-> root_node[1].mono, mono |-> mono,
     args |-> args, splits_ |-> splits_, root_node |-> root_node,
     feature |-> unwrap(feature)]

\* 1.0 - y of each label
Inverted(y) == [k \in 1..Len(y) |-> 1 - y[k]]

\* the opposite direction
Flipped(m) == Some(0 - unwrap(m))

\* larger min_iv values (thousandths) a second Discretizer is built with
LargerMinIv == {100, 400}

\* The configurations of the second Discretizer, <<min_obs, max_bins, min_iv,
\* min_pos, mono>>: that of the first one with the direction the first fit
\* ended with, with one threshold raised, with another max_bins, or with
\* the opposite direction
SecondArgs(k) ==
    {<<Some(k.min_obs), Some(k.max_bins), Some(k.min_iv), Some(k.min_pos), k.mono>>}
    \cup {<<Some(k.min_obs + 1), Some(k.max_bins), Some(k.min_iv), Some(k.min_pos), k.mono0>>}
    \cup {<<Some(k.min_obs), Some(k.max_bins), Some(k.min_iv), Some(k.min_pos + 1), k.mono0>>}
    \cup {<<Some(k.min_obs), Some(k.max_bins), Some(miv), Some(k.min_pos), k.mono0>> :
             miv \in LargerMinIv}
    \cup {<<Some(k.min_obs), mb, Some(k.min_iv), Some(k.min_pos), k.mono0>> :
             mb \in MaxBinsArgs \ {Some(k.max_bins)}}
    \cup (IF is_none(k.mono0) THEN {}
          ELSE {<<Some(k.min_obs), Some(k.max_bins), Some(k.min_iv), Some(k.min_pos),
                  Flipped(k.mono0)>>})

\* the first fit of a pair
FitFirst == \E in \in PairInputs :
                /\ kept = <<>> /\ is_none(feature) /\ args = <<>>
                /\ FitBegin(Col(in.d, "x"), Col(in.d, "y"), Col(in.d, "w"), in.e)

\* the caller keeps the outcome of the first fit and builds a second Discretizer
KeepAndRenew ==
    /\ pc = "idle" /\ ret.op = "fit" /\ ret.kind = "Ok"
    /\ kept = <<>>
    /\ kept' = Kept
    /\ \E a \in SecondArgs(Kept) : Discretizer_new(a[1], a[2], a[3], a[4], a[5])
    /\ args' = <<>>
    /\ ret' = [op |-> "new", kind |-> "Ok", err |-> "", val |-> <<>>]
    /\ UNCHANGED <<pc, fit_feature, que, n_bins>>

\* the caller keeps the outcome of the first fit and goes on with the same Discretizer
KeepSame ==
    /\ pc = "idle" /\ ret.op = "fit" /\ ret.kind = "Ok"
    /\ kept = <<>>
    /\ kept' = Kept
    /\ ret' = [op |-> "keep", kind |-> "Ok", err |-> "", val |-> <<>>]
    /\ UNCHANGED <<min_obs, max_bins, min_iv, min_pos, mono, root_node, splits_,
                   feature, pc, fit_feature, que, n_bins, args>>

\* the caller, going on with the same Discretizer, sets its mono before the
\* second fit
SetMonoBetween ==
    /\ kept # <<>> /\ ret.op = "keep"
    /\ SetMono

\* the labels of the second fit: inverted when the second Discretizer has the
\* direction opposite to the one the first fit began with
SecondLabels ==
    IF ~is_none(kept.mono0) /\ mono = Flipped(kept.mono0) /\ ret.op = "new"
    THEN Inverted(kept.args.y)
    ELSE kept.args.y

\* the second fit of a pair, of the inputs of the first
FitSecond ==
    /\ kept # <<>>
    /\ ret.op \in {"new", "keep", "set_mono"}
    /\ FitBegin(kept.args.x, SecondLabels, kept.args.w, kept.args.exception_values)

\* two fits of the same inputs
PairNext ==
    \/ FitFirst \/ FitExpand \/ FitReturn
    \/ KeepAndRenew \/ KeepSame \/ SetMonoBetween \/ FitSecond

PairSpec == Init /\ [][PairNext]_vars

\* one fit of a new Discretizer
FitNext == Fit \/ FitExpand \/ FitReturn

FitSpec == Init /\ [][FitNext]_vars

\* the life of a Discretizer: fits, failed or not, predictions, and mono set
\* by the caller between them
Next == Refit \/ FitExpand \/ FitReturn \/ Predict \/ SetMono

Spec == Init /\ [][Next]_vars

-----------------------------------------------------------------------------
\* What a caller can observe

\* fit has just returned Ok
FitOk == pc = "idle" /\ ret.op = "fit" /\ ret.kind = "Ok"

\* the exception values the last fit, the one that built the stored Feature, kept
StoredExceptions == unwrap(feature).exception_values.vals_

IsException(v) == ~is_none(exception_idx(unwrap(feature).exception_values, v))

Range(s) == {s[k] : k \in 1..Len(s)}

\* the indices of the terminal nodes under the node at index n, left to right
RECURSIVE Terminals(_, _)
Terminals(tree, n) ==
    IF is_terminal(tree[n]) THEN <<n>>
    ELSE Terminals(tree, unwrap(tree[n].left_node))
         \o Terminals(tree, unwrap(tree[n].right_node))

\* the weights of evidence of the bins, left to right
BinWoes == [k \in 1..Len(Terminals(root_node, 1)) |->
               root_node[Terminals(root_node, 1)[k]].woe]

\* the Feature of the fit that runs or that has returned
TheFeature == IF pc = "idle" THEN unwrap(feature) ELSE unwrap(fit_feature)

\* the weight, and the weight of the positives, of the rows of the last fit's
\* input that are no exception values and whose x satisfies In
RowWeights(In(_)) ==
    [k \in 1..Len(args.x) |->
        IF In(args.x[k]) /\ is_none(exception_idx(TheFeature.exception_values, args.x[k]))
        THEN args.w[k] ELSE 0]
Obs(In(_)) == SumRange(RowWeights(In), 1, Len(args.x))
PosWeights(In(_)) ==
    [k \in 1..Len(args.x) |-> RowWeights(In)[k] * args.y[k]]
Pos(In(_)) == SumRange(PosWeights(In), 1, Len(args.x))

\* the rows in the range of vals_ of the node at index n
NodeObs(n) ==
    LET In(v) == /\ FGe(v, TheFeature.vals_[root_node[n].start + 1])
                 /\ FGe(TheFeature.vals_[root_node[n].stop], v)
    IN  Obs(In)
NodePos(n) ==
    LET In(v) == /\ FGe(v, TheFeature.vals_[root_node[n].start + 1])
                 /\ FGe(TheFeature.vals_[root_node[n].stop], v)
    IN  Pos(In)

\* the rows of bin j: those that predict_idx maps to j
BinObs(j) ==
    LET In(v) == predict_record_idx(v, SubSeq(splits_, 2, Len(splits_)), TheFeature) = Ok(j)
    IN  Obs(In)
BinPos(j) ==
    LET In(v) == predict_record_idx(v, SubSeq(splits_, 2, Len(splits_)), TheFeature) = Ok(j)
    IN  Pos(In)

-----------------------------------------------------------------------------
\* C1: after a successful fit the stored and returned splits have at least
\* two entries, begin with -infinity and end with +infinity, their interior
\* entries are strictly increasing, and each interior entry is an element of
\* Feature.vals_, an x value of the input that is no exception value.
C1_SplitsShape ==
    FitOk =>
        /\ ret.val = splits_
        /\ Len(splits_) >= 2
        /\ splits_[1] = NEG_INFINITY
        /\ splits_[Len(splits_)] = INFINITY
        /\ \A k \in 2..(Len(splits_) - 2) : FLt(splits_[k], splits_[k + 1])
        /\ \A k \in 2..(Len(splits_) - 1) :
              /\ splits_[k] \in Range(unwrap(feature).vals_)
              /\ splits_[k] \in Range(args.x)
              /\ ~IsException(splits_[k])

\* a fit with exception values that ends with two interior splits
C1_Witness ==
    /\ FitOk
    /\ Len(splits_) = 4
    /\ Len(StoredExceptions) > 0

-----------------------------------------------------------------------------
\* C2, as stated: after a successful fit, 2 <= len(splits) <= max_bins + 1
\* for every configured max_bins.
C2_AsStated ==
    FitOk => 2 <= Len(splits_) /\ Len(splits_) <= max_bins + 1

\* C2: after a successful fit, 2 <= len(splits) <= max(max_bins, 1) + 1: the
\* number of bins never exceeds max_bins when max_bins >= 1, and there is one
\* bin when max_bins <= 1.
C2_BinCap ==
    FitOk =>
        /\ 2 <= Len(splits_)
        /\ Len(splits_) <= (IF max_bins > 1 THEN max_bins ELSE 1) + 1
        /\ max_bins <= 1 => Len(splits_) = 2

\* a fit of the graded table, which has three bins when max_bins allows them,
\* that ends with max_bins = 2 bins
C2_Witness ==
    /\ FitOk
    /\ args.x = Col(GradedData, "x") /\ args.y = Col(GradedData, "y")
    /\ args.w = Col(GradedData, "w") /\ is_none(args.exception_values)
    /\ min_obs = 1 /\ min_pos = 1
    /\ max_bins = 2
    /\ Len(splits_) = 3

-----------------------------------------------------------------------------
\* C3, as stated: after a successful fit the weights of evidence of the bins,
\* left to right, are monotone in the direction of mono: woe(k) < woe(k+1)
\* for adjacent bins when mono = +1, woe(k) >= woe(k+1) when mono = -1, also
\* for bins of different subtrees.
C3_AsStated ==
    FitOk =>
        \A k \in 1..(Len(BinWoes) - 1) :
            /\ mono = Some(1) => FLt(BinWoes[k], BinWoes[k + 1])
            /\ mono = Some(-1) => FGe(BinWoes[k], BinWoes[k + 1])

-----------------------------------------------------------------------------
\* C4: every split that fit accepts leaves, on its left and on its right, at
\* least min_obs weighted observations and at least min_pos weighted
\* positives among the rows that are no exception values; and when a fit
\* returns more than one bin, every bin holds at least min_obs weighted
\* observations and min_pos weighted positives.
C4_SidesAndBins ==
    /\ \A n \in 1..Len(root_node) :
          ~is_terminal(root_node[n]) =>
              \A c \in {unwrap(root_node[n].left_node), unwrap(root_node[n].right_node)} :
                  NodeObs(c) >= min_obs /\ NodePos(c) >= min_pos
    /\ FitOk /\ Len(splits_) > 2 =>
          \A j \in 0..(Len(splits_) - 2) :
              BinObs(j) >= min_obs /\ BinPos(j) >= min_pos

\* a fit with min_obs = 2 and min_pos = 1 that returns three bins, of an
\* input that holds rows of exception values too
C4_Witness ==
    /\ FitOk
    /\ min_obs = 2 /\ min_pos = 1
    /\ Len(splits_) = 4
    /\ \E k \in 1..Len(args.x) : IsException(args.x[k])

-----------------------------------------------------------------------------
\* The last fit succeeded, and predict_idx has returned for the one value v
Fitted == pc = "idle" /\ Len(splits_) >= 2 /\ ~is_none(feature)
IdxOf(v) == Fitted /\ ret.op = "predict_idx" /\ args.x = <<v>>
WoeOf(v) == Fitted /\ ret.op = "predict_woe" /\ args.x = <<v>>

\* the least j (0-based) with splits[1 + j] >= v in the order of
\* nan_safe_compare; the set is empty when there is none
LeastEdge(v) ==
    {j \in 0..(Len(splits_) - 2) :
        /\ nan_safe_compare(splits_[j + 2], v) # "Less"
        /\ \A i \in 0..(j - 1) : nan_safe_compare(splits_[i + 2], v) = "Less"}

\* C5, as stated: after a successful fit predict_idx maps every value v that
\* is no exception value to the least j with splits[1+j] >= v, v lies in
\* (splits[j], splits[j+1]], the result is in 0..len(splits)-2, and the
\* Prediction error is never returned.
C5_AsStated ==
    \A v \in PredictDomain :
        IdxOf(v) /\ ~IsException(v) =>
            /\ ret.kind = "Ok"
            /\ LeastEdge(v) = {ret.val[1]}
            /\ FGt(v, splits_[ret.val[1] + 1])
            /\ FGe(splits_[ret.val[1] + 2], v)

\* C5: after a successful fit predict_idx maps every value v that is no
\* exception value to the least j with splits[1+j] >= v in the NaN-safe
\* order, a j in 0..len(splits)-2, and never returns the Prediction error; v
\* lies in (splits[j], splits[j+1]] unless v is NaN or -infinity, which go to
\* bin 0.
C5_LeastEdge ==
    \A v \in PredictDomain :
        IdxOf(v) /\ ~IsException(v) =>
            /\ ret.kind = "Ok"
            /\ LeastEdge(v) = {ret.val[1]}
            /\ IF is_nan(v) \/ v = NEG_INFINITY
               THEN ret.val[1] = 0
               ELSE FGt(v, splits_[ret.val[1] + 1]) /\ FGe(splits_[ret.val[1] + 2], v)

\* predict_idx of a value equal to the second interior split, with exception
\* values stored
C5_Witness ==
    /\ Len(splits_) = 4
    /\ IdxOf(splits_[3])
    /\ ret.val = <<1>>
    /\ Len(StoredExceptions) > 0

-----------------------------------------------------------------------------
\* the number of distinct stored exception values below v in the NaN-safe order
Rank(v) == Cardinality({e \in Range(StoredExceptions) : nan_safe_compare(e, v) = "Less"})

\* C6, as stated: the exception values given to fit are stored sorted (NaN
\* first) and without duplicates, duplicates of NaN included, and predict_idx
\* returns -(k+1) for the k-th (0-based) distinct exception value, and a
\* result >= 0 exactly for the values that are no exception values.
C6_AsStated ==
    /\ FitOk =>
          /\ Range(StoredExceptions) = Range(unwrap_or(args.exception_values, <<>>))
          /\ \A k \in 1..(Len(StoredExceptions) - 1) :
                nan_safe_compare(StoredExceptions[k], StoredExceptions[k + 1]) = "Less"
    /\ \A v \in PredictDomain :
          IdxOf(v) =>
              /\ ret.kind = "Ok"
              /\ ret.val[1] >= 0 <=> ~IsException(v)
              /\ IsException(v) => ret.val[1] = 0 - (Rank(v) + 1)

-----------------------------------------------------------------------------
\* C7: after a successful fit predict_woe returns, for a value of exception
\* slot k, 0 when totals_ct[k] = 0 and woe[k] otherwise; for another value
\* the woe of the terminal node its walk from the root ends in, which is the
\* terminal node, counted from the left, of the bin predict_idx gives.
C7_WoeOfBin ==
    \A v \in PredictDomain :
        WoeOf(v) =>
            /\ ret.kind = "Ok"
            /\ IF IsException(v)
               THEN \E k \in 1..Len(StoredExceptions) :
                       /\ nan_safe_compare(StoredExceptions[k], v) = "Equal"
                       /\ \A i \in 1..(k - 1) :
                             nan_safe_compare(StoredExceptions[i], v) # "Equal"
                       /\ ret.val[1] =
                              IF unwrap(feature).exception_values.totals_ct_[k] = 0 THEN 0
                              ELSE unwrap(feature).exception_values.woe_[k]
               ELSE /\ Len(BinWoes) = Len(splits_) - 1
                    /\ \E j \in LeastEdge(v) : ret.val[1] = BinWoes[j + 1]
                    /\ predict_idx(<<v>>).kind = "Ok"
                    /\ ret.val[1] = BinWoes[predict_idx(<<v>>).val[1] + 1]

\* predict_woe of the value of an interior split, the edge of a bin that is
\* neither the first nor the last, with exception values stored
C7_Witness ==
    /\ Len(splits_) = 4
    /\ WoeOf(splits_[2])
    /\ ret.val = <<BinWoes[1]>>
    /\ BinWoes[1] # BinWoes[2]
    /\ Len(StoredExceptions) > 0

-----------------------------------------------------------------------------
\* C8, as stated: on a Discretizer on which no fit has succeeded, predict_idx
\* and predict_woe return the error NotFitted for every input slice.
C8_AsStated ==
    pc = "idle" /\ is_none(feature) /\ ret.op \in {"predict_idx", "predict_woe"} =>
        ret.kind = "Err" /\ ret.err = "NotFitted"

-----------------------------------------------------------------------------
\* C9, as stated: when fit has failed, also after an earlier fit that
\* succeeded, splits is empty, no Feature is stored, and predict_idx and
\* predict_woe report NotFitted.
C9_AsStated ==
    pc = "idle" /\ ret.op = "fit" /\ ret.kind = "Err" =>
        /\ splits_ = <<>>
        /\ is_none(feature)
        /\ \A x \in PredictSlices :
              /\ predict_idx(x) = Err("NotFitted")
              /\ predict_woe(x) = Err("NotFitted")

-----------------------------------------------------------------------------
HasNaN(s) == \E k \in 1..Len(s) : is_nan(s[k])
NaNListed == HasNaN(unwrap_or(args.exception_values, <<>>))
FitFailsWith(e) == ret.kind = "Err" /\ ret.err = e

\* C10, as stated: fit fails with ContainsNaN("y column") when a y is NaN,
\* with ContainsNaN("weight column") when a w is NaN, with ContainsNaN("x
\* column, but NaN is not an exception value") when an x is NaN and NaN is
\* not in the exception list; an x that is NaN is accepted when NaN is listed.
C10_AsStated ==
    ret.op = "fit" =>
        /\ HasNaN(args.y) => FitFailsWith("ContainsNaN(y column)")
        /\ HasNaN(args.w) => FitFailsWith("ContainsNaN(weight column)")
        /\ HasNaN(args.x) /\ ~NaNListed =>
              FitFailsWith("ContainsNaN(x column, but NaN is not an exception value)")
        /\ HasNaN(args.x) /\ NaNListed /\ ~HasNaN(args.y) /\ ~HasNaN(args.w) =>
              ret.kind # "Err"

\* the first row, in the order of the input, with a NaN y or a NaN w
FirstBadRow ==
    CHOOSE k \in 1..Len(args.y) :
        /\ is_nan(args.y[k]) \/ is_nan(args.w[k])
        /\ \A i \in 1..(k - 1) : ~is_nan(args.y[i]) /\ ~is_nan(args.w[i])

\* C10: fit fails with ContainsNaN when a y or a w is NaN, or an x is NaN
\* while NaN is not in the exception list, wherever the NaN is and whatever
\* other exception values are given.  The message is that of the first row of
\* the input with a NaN y or w: "y column" when its y is NaN, "weight column"
\* otherwise; it is "x column, but NaN is not an exception value" only when
\* no y and no w is NaN.  Without any such NaN fit does not fail: an x that
\* is NaN is accepted when NaN is listed.
C10_NaNErrors ==
    ret.op = "fit" =>
        IF HasNaN(args.y) \/ HasNaN(args.w)
        THEN IF is_nan(args.y[FirstBadRow])
             THEN FitFailsWith("ContainsNaN(y column)")
             ELSE FitFailsWith("ContainsNaN(weight column)")
        ELSE IF HasNaN(args.x) /\ ~NaNListed
        THEN FitFailsWith("ContainsNaN(x column, but NaN is not an exception value)")
        ELSE ret.kind # "Err"

\* a fit refused for the NaN x of its last row, with an exception list that
\* holds another value
C10_Witness ==
    /\ ret.op = "fit"
    /\ FitFailsWith("ContainsNaN(x column, but NaN is not an exception value)")
    /\ is_nan(args.x[Len(args.x)])
    /\ ~is_nan(args.x[1])
    /\ args.exception_values = Some(<<1>>)

-----------------------------------------------------------------------------
\* Two fits of the same inputs

\* the second fit of a pair has returned Ok
SecondOk == kept # <<>> /\ FitOk

\* the second fit got the x, the weights and the exception values of the first
SameRows ==
    /\ args.x = kept.args.x /\ args.w = kept.args.w
    /\ args.exception_values = kept.args.exception_values

\* the mono the second fit began with
Mono0 == root_node[1].mono

\* the interior entries of a splits list
Interior(s) == {s[k] : k \in 2..(Len(s) - 1)}

\* the split values of a tree in the order fit accepted them: the children
\* of the j-th accepted split are the nodes 2j and 2j + 1 of the arena
AcceptOrder(tree) ==
    [j \in 1..((Len(tree) - 1) \div 2) |->
        unwrap(tree[CHOOSE n \in 1..Len(tree) : tree[n].left_node = Some(2 * j)]
                   .split_info.split)]

\* C11: when a fit with mono unset has elected a direction, a fit of the same
\* inputs under the same thresholds and max_bins that begins with mono equal
\* to the elected direction, on the same Discretizer or on a new one, returns
\* the same splits.
C11_ElectionIdempotent ==
    /\ SecondOk /\ SameRows /\ args.y = kept.args.y
    /\ min_obs = kept.min_obs /\ min_pos = kept.min_pos
    /\ min_iv = kept.min_iv /\ max_bins = kept.max_bins
    /\ is_none(kept.mono0) /\ ~is_none(kept.mono) /\ Mono0 = kept.mono
    => splits_ = kept.splits_

\* the second fit of a pair began with the direction the first, begun with
\* mono unset, had elected, and both returned two interior splits
C11_Witness ==
    /\ SecondOk /\ SameRows /\ args.y = kept.args.y
    /\ min_obs = kept.min_obs /\ min_pos = kept.min_pos
    /\ min_iv = kept.min_iv /\ max_bins = kept.max_bins
    /\ is_none(kept.mono0) /\ ~is_none(kept.mono) /\ Mono0 = kept.mono
    /\ Len(kept.splits_) = 4
    /\ Len(splits_) = 4

-----------------------------------------------------------------------------
\* C12, as stated: for fixed inputs, max_bins and mono, the interior splits of
\* a fit with a larger min_obs, min_pos or min_iv are a subset of the interior
\* splits of the fit with the smaller threshold.
C12_AsStated ==
    /\ SecondOk /\ SameRows /\ args.y = kept.args.y
    /\ max_bins = kept.max_bins /\ Mono0 = kept.mono0
    /\ min_obs >= kept.min_obs /\ min_pos >= kept.min_pos /\ min_iv >= kept.min_iv
    => Interior(splits_) \subseteq Interior(kept.splits_)

\* C12: for fixed inputs, max_bins and mono, raising min_obs, min_pos or
\* min_iv never lets a first split appear: when the fit with the larger
\* thresholds returns an interior split, so does the fit with the smaller
\* ones.  (The splits of the two fits may differ, and the fit with the larger
\* thresholds may return splits the other does not.)
C12_RootSplitSurvives ==
    /\ SecondOk /\ SameRows /\ args.y = kept.args.y
    /\ max_bins = kept.max_bins /\ Mono0 = kept.mono0
    /\ min_obs >= kept.min_obs /\ min_pos >= kept.min_pos /\ min_iv >= kept.min_iv
    => (Len(splits_) > 2 => Len(kept.splits_) > 2)

\* a fit with a raised threshold that returns a split the fit with the
\* smaller threshold did not return
C12_Witness ==
    /\ SecondOk /\ SameRows /\ args.y = kept.args.y
    /\ max_bins = kept.max_bins /\ Mono0 = kept.mono0
    /\ min_obs >= kept.min_obs /\ min_pos >= kept.min_pos /\ min_iv >= kept.min_iv
    /\ min_obs + min_pos + min_iv > kept.min_obs + kept.min_pos + kept.min_iv
    /\ Len(splits_) > 2
    /\ ~(Interior(splits_) \subseteq Interior(kept.splits_))

-----------------------------------------------------------------------------
\* the first n elements of s, all of s when it has fewer
Take(s, n) == SubSeq(s, 1, IF n < Len(s) THEN n ELSE Len(s))

\* C13: for fixed inputs, thresholds and mono (set or unset), a fit with a
\* smaller max_bins accepts the first max_bins - 1 splits that the fit with
\* the larger max_bins accepted, in the same order, and no other: its
\* interior splits are a subset of those of the larger run.
C13_CapTruncates ==
    /\ SecondOk /\ SameRows /\ args.y = kept.args.y
    /\ min_obs = kept.min_obs /\ min_pos = kept.min_pos /\ min_iv = kept.min_iv
    /\ Mono0 = kept.mono0
    /\ max_bins < kept.max_bins
    => /\ AcceptOrder(root_node) = Take(AcceptOrder(kept.root_node), max_bins - 1)
       /\ Interior(splits_) = Range(AcceptOrder(root_node))
       /\ Interior(splits_) \subseteq Interior(kept.splits_)

\* a fit with max_bins = 2 after a fit of the same inputs with max_bins = 3
\* that had accepted two splits: it returns the first of them
C13_Witness ==
    /\ SecondOk /\ SameRows /\ args.y = kept.args.y
    /\ min_obs = kept.min_obs /\ min_pos = kept.min_pos /\ min_iv = kept.min_iv
    /\ Mono0 = kept.mono0
    /\ max_bins = 2 /\ kept.max_bins = 3
    /\ Len(kept.splits_) = 4
    /\ Len(splits_) = 3
    /\ splits_[2] = AcceptOrder(kept.root_node)[1]

-----------------------------------------------------------------------------
\* C14, as stated: for labels in {0, 1}, the fit of (x, 1 - y, w) with
\* mono = -1 returns the splits of the fit of (x, y, w) with mono = +1 under
\* the same min_obs, min_pos, min_iv and max_bins.
C14_AsStated ==
    /\ SecondOk /\ SameRows /\ args.y = Inverted(kept.args.y)
    /\ min_obs = kept.min_obs /\ min_pos = kept.min_pos
    /\ min_iv = kept.min_iv /\ max_bins = kept.max_bins
    /\ kept.mono0 = Some(1) /\ Mono0 = Some(-1)
    => splits_ = kept.splits_

\* some candidate split of some range of f.vals_ has the same weight of
\* evidence on its two sides
EqualSides(f) ==
    \E start \in 0..Len(f.vals_), stop \in 0..Len(f.vals_) :
        \E i \in (start + 1)..(stop - 1) :
            FEq(split_iv_woe(f, f.vals_[i], start, stop)[1][2],
                split_iv_woe(f, f.vals_[i], start, stop)[2][2])

\* C14: for labels in {0, 1}, the fit of (x, 1 - y, w) with the opposite mono
\* returns the splits of the fit of (x, y, w) under the same min_obs, min_iv
\* and max_bins when min_pos = 0, no candidate split has the same weight of
\* evidence on its two sides, and no two candidate splits of a range have
\* the same finite information value.  (On equal information values the
\* rounding of the f64 arithmetic decides which split a fit takes, and the
\* inversion exchanges the expressions that are rounded.)
C14_InversionSymmetry ==
    /\ SecondOk /\ SameRows /\ args.y = Inverted(kept.args.y)
    /\ min_obs = kept.min_obs /\ min_pos = kept.min_pos
    /\ min_iv = kept.min_iv /\ max_bins = kept.max_bins
    /\ ~is_none(kept.mono0) /\ Mono0 = Flipped(kept.mono0)
    /\ min_pos = 0
    /\ ~EqualSides(kept.feature)
    /\ TieFreeFeature(kept.feature) /\ TieFreeFeature(unwrap(feature))
    => splits_ = kept.splits_

\* the fit of the inverted labels with mono = -1 after a fit with mono = +1
\* that returned two interior splits
C14_Witness ==
    /\ SecondOk /\ SameRows /\ args.y = Inverted(kept.args.y)
    /\ min_obs = kept.min_obs /\ min_pos = kept.min_pos
    /\ min_iv = kept.min_iv /\ max_bins = kept.max_bins
    /\ kept.mono0 = Some(1) /\ Mono0 = Some(-1)
    /\ min_pos = 0
    /\ ~EqualSides(kept.feature)
    /\ TieFreeFeature(kept.feature) /\ TieFreeFeature(unwrap(feature))
    /\ Len(kept.splits_) = 4
    /\ Len(splits_) = 4

-----------------------------------------------------------------------------
\* The Feature against the rows it was built from

\* the Feature of a fit whose Feature::new has returned Ok
Built == pc # "idle" \/ FitOk

SumOf(s) == SumRange(s, 1, Len(s))

\* C15: weight conservation in Feature::new.  Whenever a Feature was built,
\* the totals of the values of vals_ and the totals of the exception slots
\* add up to the sum of w, and no value of vals_ is an exception value; also
\* when every row is an exception value.
C15_AsStated ==
    Built =>
        /\ SumOf(TheFeature.totals_ct_) + SumOf(TheFeature.exception_values.totals_ct_)
               = SumOf(args.w)
        /\ \A k \in 1..Len(TheFeature.vals_) :
               is_none(exception_idx(TheFeature.exception_values, TheFeature.vals_[k]))

\* C16: aggregation correctness.  Whenever a Feature was built, vals_ holds
\* the distinct x values that are no exception values, in increasing order,
\* and for every slice [start, stop) of vals_ and every split value v,
\* split_totals_ct_ones_ct(v, start, stop) is <<sum of w, sum of w * y>> over
\* the rows whose x is in the slice and <= v, then the same over the rows
\* whose x is in the slice and > v, as recomputed from the rows of the input.
C16_AsStated ==
    Built =>
        /\ \A k \in 1..(Len(TheFeature.vals_) - 1) :
               FLt(TheFeature.vals_[k], TheFeature.vals_[k + 1])
        /\ Range(TheFeature.vals_)
               = {args.x[k] : k \in {j \in 1..Len(args.x) :
                                       is_none(exception_idx(TheFeature.exception_values,
                                                             args.x[j]))}}
        /\ \A start \in 0..Len(TheFeature.vals_) :
             \A stop \in start..Len(TheFeature.vals_) :
               \A v \in (0..(MaxX + 1)) \cup {NEG_INFINITY, INFINITY} :
                 LET InSlice(xv) == \E i \in (start + 1)..stop : FEq(TheFeature.vals_[i], xv)
                     Lhs(xv) == InSlice(xv) /\ FGe(v, xv)
                     Rhs(xv) == InSlice(xv) /\ FGt(xv, v)
                 IN  split_totals_ct_ones_ct(TheFeature, v, start, stop)
                        = << <<Obs(Lhs), Pos(Lhs)>>, <<Obs(Rhs), Pos(Rhs)>> >>

-----------------------------------------------------------------------------
\* The steps of the expansion loop

\* the split info that the next pass of the loop finds for the node it pops
PoppedInfo == find_best_split(root_node[back(que)], unwrap(fit_feature))

\* C17: the global bin cap.  n_bins is 1 when the loop starts and grows by
\* one in each pass whose popped node has a valid best split; the pass where
\* it first comes to exceed max_bins ends the loop: the tree and splits_ stay
\* as they are, the popped node and every node still in the queue is terminal,
\* and no further pass follows.  When fit returns, the tree has
\* len(splits) - 1 terminal nodes.
C17_GlobalCap ==
    [][LET Pass(info) ==
               /\ n_bins = Len(splits_) + 1
               /\ n_bins' = n_bins + (IF is_none(info.split) THEN 0 ELSE 1)
               /\ pc' = "break" <=> ~is_none(info.split) /\ n_bins' > max_bins
               /\ pc' = "break" =>
                     /\ root_node' = root_node /\ splits_' = splits_
                     /\ is_terminal(root_node[back(que)])
                     /\ \A k \in 1..Len(que') : is_terminal(root_node[que'[k]])
               /\ pc' = "loop" /\ ~is_none(info.split) =>
                     /\ splits_' = Append(splits_, unwrap(info.split))
                     /\ ~is_terminal(root_node'[back(que)])
       IN  /\ pc = "idle" /\ pc' = "loop" => n_bins' = 1 /\ que' = <<1>>
           /\ pc = "loop" /\ Len(que) > 0 => Pass(PoppedInfo)
           /\ pc = "break" =>
                 /\ pc' = "idle" /\ root_node' = root_node
                 /\ Len(splits_') = Len(splits_) + 2
           /\ pc # "idle" /\ pc' = "idle" =>
                 Len(Terminals(root_node', 1)) = Len(splits_') - 1
      ]_vars

\* the cap has ended the loop at the left child of the root, with the right
\* child still in the queue
C17_Witness ==
    /\ pc = "break"
    /\ n_bins > max_bins
    /\ Len(splits_) = 1
    /\ Len(que) = 1
    /\ is_terminal(root_node[que[1]])

\* C18: the election of the direction.  In a fit that began with mono unset,
\* the pass that accepts the first split sets mono to +1 if that split has
\* lhs_woe < rhs_woe and to -1 otherwise; no other step changes mono; every
\* node searched after the election carries the elected sign, and a split
\* found for it has that sign; mono is still unset at return if no split was
\* accepted.
C18_Election ==
    [][LET Pass(info) ==
               /\ Len(splits_') > Len(splits_) /\ is_none(mono) =>
                     /\ Len(splits_) = 0
                     /\ mono' = IF FLt(unwrap(info.lhs_woe), unwrap(info.rhs_woe))
                                THEN Some(1) ELSE Some(-1)
               /\ Len(splits_') = Len(splits_) \/ ~is_none(mono) => mono' = mono
               /\ Len(splits_) > 0 =>
                     /\ ~is_none(mono)
                     /\ root_node[back(que)].mono = mono
                     /\ ~is_none(info.split) =>
                           (mono = Some(1)
                               <=> FLt(unwrap(info.lhs_woe), unwrap(info.rhs_woe)))
       IN  /\ pc = "loop" /\ Len(que) > 0 => Pass(PoppedInfo)
           /\ pc # "loop" \/ Len(que) = 0 => mono' = mono
           /\ pc # "idle" /\ pc' = "idle" /\ Len(splits_') = 2 =>
                 mono' = root_node'[1].mono
      ]_vars

\* a fit that began with mono unset has elected -1 and accepted a second
\* split under it
C18_Witness ==
    /\ pc = "loop"
    /\ is_none(root_node[1].mono)
    /\ mono = Some(-1)
    /\ Len(splits_) = 2

-----------------------------------------------------------------------------
\* The best split of a node

\* lines 108-150: the candidate v passes the four gates of the node
PassesGates(node, f, v, cts, ivs) ==
    /\ MinPosGate(node, cts)
    /\ MinObsGate(node, cts)
    /\ MinIvGate(node, f, FAdd(ivs[1][1], ivs[2][1]))
    /\ MonoGate(node, ivs)

\* the 1-based indices into vals_ of the values at the 0-based indices
\* start..stop-2 that pass the four gates of the node
Passing(node, f) ==
    {i \in (node.start + 1)..(node.stop - 1) :
        PassesGates(node, f, f.vals_[i],
                    split_totals_ct_ones_ct(f, f.vals_[i], node.start, node.stop),
                    split_iv_woe(f, f.vals_[i], node.start, node.stop))}

\* info is the split at vals_[i], the earliest of the candidates P whose
\* information value no candidate of P exceeds
EarliestBest(node, f, info, P, i) ==
    /\ info = SplitInfo_new(f.vals_[i],
                            split_iv_woe(f, f.vals_[i], node.start, node.stop)[1][1],
                            split_iv_woe(f, f.vals_[i], node.start, node.stop)[1][2],
                            split_iv_woe(f, f.vals_[i], node.start, node.stop)[2][1],
                            split_iv_woe(f, f.vals_[i], node.start, node.stop)[2][2])
    /\ \A j \in P :
          /\ ~FGt(TotalIv(f, f.vals_[j], node.start, node.stop),
                  TotalIv(f, f.vals_[i], node.start, node.stop))
          /\ j < i => ~FGe(TotalIv(f, f.vals_[j], node.start, node.stop),
                           TotalIv(f, f.vals_[i], node.start, node.stop))

\* C19, as stated: for every node of the tree, find_best_split returns the
\* empty SplitInfo exactly when no value at the indices start..stop-2 passes
\* the four gates, and otherwise the earliest of the passing candidates with
\* the largest lhs_iv + rhs_iv.
C19_AsStated ==
    Built =>
        \A n \in 1..Len(root_node) :
            LET Holds(node, f, info, P) ==
                    /\ is_none(info.split) <=> P = {}
                    /\ ~is_none(info.split) =>
                          \E i \in P : EarliestBest(node, f, info, P, i)
            IN  Holds(root_node[n], TheFeature,
                      find_best_split(root_node[n], TheFeature),
                      Passing(root_node[n], TheFeature))

\* C19: for every node of the tree, find_best_split returns the empty
\* SplitInfo exactly when no value at the indices start..stop-2 passes the
\* four gates with lhs_iv + rhs_iv > 0, and otherwise the earliest of the
\* passing candidates with the largest lhs_iv + rhs_iv.
C19_BestSplit ==
    Built =>
        \A n \in 1..Len(root_node) :
            LET Holds(node, f, info, P) ==
                    /\ is_none(info.split) <=>
                          ~\E i \in P : FGt(TotalIv(f, f.vals_[i], node.start, node.stop), 0)
                    /\ ~is_none(info.split) =>
                          \E i \in P :
                              /\ FGt(TotalIv(f, f.vals_[i], node.start, node.stop), 0)
                              /\ EarliestBest(node, f, info, P, i)
            IN  Holds(root_node[n], TheFeature,
                      find_best_split(root_node[n], TheFeature),
                      Passing(root_node[n], TheFeature))

\* the root has three values, both candidates pass the gates with the same
\* information value, and the search returns the first
C19_Witness ==
    /\ Built
    /\ root_node[1].stop = 3
    /\ Passing(root_node[1], TheFeature) = {1, 2}
    /\ TotalIv(TheFeature, TheFeature.vals_[1], 0, 3)
          = TotalIv(TheFeature, TheFeature.vals_[2], 0, 3)
    /\ find_best_split(root_node[1], TheFeature).split = Some(TheFeature.vals_[1])

-----------------------------------------------------------------------------
\* The shape of the tree

\* the node at index n has the children l and r, split at vals_[k + 1], that
\* is at the 0-based index k
SplitAt(f, node, l, r, k) ==
    /\ node.split_info.split = Some(f.vals_[k + 1])
    /\ l.start = node.start /\ l.stop = k + 1
    /\ r.start = k + 1 /\ r.stop = node.stop

\* the ranges of the nodes t of the tree, read left to right, partition
\* [0, n) into contiguous ranges
Partition(tree, t, n) ==
    /\ tree[t[1]].start = 0
    /\ tree[t[Len(t)]].stop = n
    /\ \A j \in 1..(Len(t) - 1) : tree[t[j]].stop = tree[t[j + 1]].start

\* C20: the tree structure.  At every point of fit and afterwards, every node
\* has 0 <= start < stop <= len(vals_); it has no child or both; the split of
\* a node with children is vals_[k] for some start <= k < stop - 1, with
\* left.start = start, left.stop = right.start = k + 1, right.stop = stop;
\* and the terminal nodes, left to right, partition [0, len(vals_)).
C20_TreeShape ==
    ~is_none(root_node) =>
        /\ \A n \in 1..Len(root_node) :
              /\ 0 <= root_node[n].start
              /\ root_node[n].start < root_node[n].stop
              /\ root_node[n].stop <= Len(TheFeature.vals_)
              /\ is_none(root_node[n].left_node) <=> is_none(root_node[n].right_node)
              /\ ~is_terminal(root_node[n]) =>
                    \E k \in root_node[n].start..(root_node[n].stop - 2) :
                        SplitAt(TheFeature, root_node[n],
                                root_node[unwrap(root_node[n].left_node)],
                                root_node[unwrap(root_node[n].right_node)], k)
        /\ Partition(root_node, Terminals(root_node, 1), Len(TheFeature.vals_))

\* fit is in its loop with a tree of two splits and three terminal nodes
C20_Witness ==
    /\ pc = "loop"
    /\ Len(root_node) = 5
    /\ Len(Terminals(root_node, 1)) = 3
    /\ ~is_terminal(root_node[1]) /\ ~is_terminal(root_node[2])

-----------------------------------------------------------------------------
\* The order of the expansion

\* the children, left before right, of the nodes of a level read left to right
RECURSIVE ChildrenOf(_, _)
ChildrenOf(tree, level) ==
    IF level = <<>> THEN <<>>
    ELSE (IF is_terminal(tree[level[1]]) THEN <<>>
          ELSE <<unwrap(tree[level[1]].left_node), unwrap(tree[level[1]].right_node)>>)
         \o ChildrenOf(tree, Tail(level))

\* the nodes of the tree from a level on, level by level, left to right
RECURSIVE LevelOrder(_, _)
LevelOrder(tree, level) ==
    IF level = <<>> THEN <<>>
    ELSE level \o LevelOrder(tree, ChildrenOf(tree, level))

\* C21: the order of the expansion.  In every pass of the loop the nodes were
\* created in level order, the left child of a split before its right child;
\* the queue holds the nodes not yet searched, the earliest created at the
\* back, where the pass pops; every node created before the popped one has
\* been searched, and the next pass pops the node created next; splits_
\* holds the splits of the nodes in level order.
C21_ExpansionOrder ==
    [][pc = "loop" /\ Len(que) > 0 =>
          LET HasSplit(n) == ~is_terminal(root_node[n])
              InOrder(order) ==
                  /\ order = [k \in 1..Len(root_node) |-> k]
                  /\ splits_ = [j \in 1..Len(SelectSeq(order, HasSplit)) |->
                                   unwrap(root_node[SelectSeq(order, HasSplit)[j]]
                                              .split_info.split)]
          IN  /\ InOrder(LevelOrder(root_node, <<1>>))
              /\ que = [k \in 1..Len(que) |-> Len(root_node) + 1 - k]
              /\ pc' = "loop" /\ Len(que') > 0 => back(que') = back(que) + 1
      ]_vars

\* the root and both of its children have been split, in this order, and
\* the four nodes of the third level wait in the queue, the leftmost at the back
C21_Witness ==
    /\ pc = "loop"
    /\ Len(root_node) = 7
    /\ root_node[2].left_node = Some(4)
    /\ root_node[3].left_node = Some(6)
    /\ Len(splits_) = 3
    /\ que = <<7, 6, 5, 4>>

-----------------------------------------------------------------------------
\* What fit leaves as it is

\* the sign the last tree was built under: the mono of the root's children,
\* set by the time they were made, or that of a root that was not split
LastSign ==
    IF is_none(root_node) THEN None
    ELSE IF Len(root_node) > 1 THEN root_node[2].mono
    ELSE root_node[1].mono

\* C22, as stated: once mono has been configured or elected, every later fit
\* on the same Discretizer runs constrained by that same sign: a fit that
\* begins on a Discretizer whose last tree was built under a sign builds its
\* root with that sign.
C22_AsStated ==
    [][pc = "idle" /\ pc' = "loop" /\ ~is_none(LastSign)
          => root_node'[1].mono = LastSign
      ]_vars

\* C22: no step of fit changes a mono that is set, and no step changes
\* min_obs, max_bins, min_iv or min_pos; a fit that begins with mono set, at
\* construction, by the setter or by the election of an earlier fit, also of
\* other data, builds its root with that mono, every node it searches
\* carries it, and every split it finds has that sign.  Between two fits
\* only the setter changes mono.
C22_MonoKept ==
    [][LET Constrained(info) ==
               /\ root_node[back(que)].mono = mono
               /\ ~is_none(info.split) =>
                     (mono = Some(1)
                         <=> FLt(unwrap(info.lhs_woe), unwrap(info.rhs_woe)))
       IN  /\ ret'.op = "fit" /\ ~is_none(mono) => mono' = mono
           /\ mono' # mono /\ ret'.op # "fit" => ret'.op = "set_mono"
           /\ <<min_obs, max_bins, min_iv, min_pos>>' = <<min_obs, max_bins, min_iv, min_pos>>
           /\ pc = "idle" /\ pc' = "loop" /\ ~is_none(mono) => root_node'[1].mono = mono
           /\ pc = "loop" /\ Len(que) > 0 /\ ~is_none(root_node[1].mono) =>
                 Constrained(PoppedInfo)
      ]_vars

\* a Discretizer whose mono is +1 after a fit of other data, with no call of
\* the setter since, fits the table whose weight of evidence falls with x,
\* under mono = +1
C22_Witness ==
    /\ pc = "loop"
    /\ ~is_none(feature)
    /\ feature # fit_feature
    /\ LastSign = Some(1)
    /\ args.x = Col(FallingData, "x") /\ args.y = Col(FallingData, "y")
    /\ mono = Some(1)
    /\ root_node[1].mono = Some(1)

-----------------------------------------------------------------------------
\* C23, as stated: for any inputs of equal length and any exception list,
\* also an input of no rows and an input whose rows are all exception values,
\* fit returns Ok or an Err of DiscrustError and never aborts.
C23_AsStated ==
    ret.op = "fit" => ret.kind \in {"Running", "Ok", "Err"}

====
